---- MODULE Spec2Model ----
(***************************************************************************)
(* A model of trtools: the top-N / bottom-N selection of                   *)
(* trtools/core/topper.py (bn_topn, bn_topargn and their row-wise          *)
(* DataFrame drivers) and the ListFrame of trtools/tools/list_frame.py.    *)
(*                                                                         *)
(* Conventions.  A numeric array is a sequence of integers; NaN is the     *)
(* integer 0 and the finite values are 1..MaxVal.  Array positions are     *)
(* 0-based as in the source: position p of array a is a[p + 1].  A call    *)
(* that may raise returns a record [exc, out]: exc is "ok" or the name of  *)
(* the exception.  An operation whose outcome the library leaves open      *)
(* (the order inside a partial sort, the order of ties in argsort) is the  *)
(* set of all the outcomes it allows.                                      *)
(***************************************************************************)
EXTENDS Integers, Sequences, FiniteSets, TLC

\* ---------------------------------------------------------------- bounds
MaxLen == 3
MaxVal == 2
MaxN == 4
MaxCells == 4
MaxListLen == 2
MaxObj == 2
MaxAttrs == 3

NaN == 0

VARIABLES
    arr, N, ascending,          \* the arguments of a 1-D selection
    vals, topn_st,              \* bn_topn's result and how it ended
    idx, topargn_st,            \* bn_topargn's result and how it ended
    df,                         \* the DataFrame of a row-wise selection
    df_ret, df_st, df_op,       \* its result, how it ended, which method ran
    lst,                        \* the elements of the ListFrame
    cache_df,                   \* ListFrame._cache_df
    self_attrs, self_repr_col,  \* ListFrame.attrs, ListFrame.repr_col
    user_attrs,                 \* a list the caller passes as to_frame's attrs
    frame_cols,                 \* the elements' _frame_cols
    plain,                      \* a plain list driven by the same calls
    last_op, ret, plain_ret     \* the last call, what it and list's gave back

sel_vars == <<arr, vals, topn_st, idx, topargn_st>>

df_vars == <<df, df_ret, df_st, df_op>>

lf_vars == <<lst, cache_df, self_attrs, self_repr_col, user_attrs, frame_cols,
             plain, last_op, ret, plain_ret>>

vars == <<N, ascending, sel_vars, df_vars, lf_vars>>

\* ------------------------------------------------------- numpy primitives
isnan(x) == x = NaN

abs(n) == IF n < 0 THEN -n ELSE n

min(a, b) == IF a < b THEN a ELSE b

max(a, b) == IF a < b THEN b ELSE a

Ok(a) == [exc |-> "ok", out |-> a]

Raise(e) == [exc |-> e, out |-> <<>>]

\* a[start:] with Python's treatment of a negative or too large start
SliceFrom(a, start) ==
    LET M == Len(a)
        s == IF start < 0 THEN max(M + start, 0) ELSE min(start, M)
    IN  [i \in 1..(M - s) |-> a[s + i]]

\* a[:stop]
SliceTo(a, stop) ==
    LET M == Len(a)
        e == IF stop < 0 THEN max(M + stop, 0) ELSE min(stop, M)
    IN  [i \in 1..e |-> a[i]]

\* a[::-1]
Reversed(a) == [i \in 1..Len(a) |-> a[Len(a) + 1 - i]]

\* a[index] for an array of 0-based positions
Take(a, index) == [i \in 1..Len(index) |-> a[index[i] + 1]]

IsSorted(a) == \A i \in 1..(Len(a) - 1) : a[i] <= a[i + 1]

\* the orderings of the positions 0..M-1, tabulated once
PermutationTable ==
    [M \in 0..MaxLen |->
        {p \in [1..M -> 0..(M - 1)] : \A i, j \in 1..M : p[i] = p[j] => i = j}]

Permutations0(M) == PermutationTable[M]

\* np.argsort (quicksort: the order of equal values is not fixed)
np_argsort(a) == {p \in Permutations0(Len(a)) : IsSorted(Take(a, p))}

\* np.sort
np_sort(a) == Take(a, CHOOSE p \in np_argsort(a) : TRUE)

\* DropNaN with the NaN filter forgotten
DropNaN_unfiltered(a) == a

\* arr[~np.isnan(arr)]
DropNaN(a) == SelectSeq(a, LAMBDA x : ~isnan(x))

\* np.where(~np.isnan(a))[0]: the positions of the values that are not NaN
where_notnan(a) ==
    SelectSeq([i \in 1..Len(a) |-> i - 1], LAMBDA p : ~isnan(a[p + 1]))

\* -------------------------------------------------- bottleneck primitives
\* bottleneck (before 1.0, where partsort and argpartsort exist) accepts
\* 1 <= n <= len(arr) and raises ValueError otherwise; bn_topn's own guard
\* "if N == 0" (topper.py:42) is there for that.  An empty array is
\* returned as an empty copy before n is looked at (releases that raise
\* there too only add failures of bn_topargn to those found below).
partsort_domain(a, n) == 1 <= n /\ n <= Len(a)

\* nb.argpartsort(arr, n): positions ordered so that the n smallest values
\* come first, in any order on either side
bn_argpartsort(a, n) ==
    IF partsort_domain(a, n)
    THEN {Ok(p) : p \in {q \in Permutations0(Len(a)) :
                           \A i \in 1..n : \A j \in (n + 1)..Len(a) :
                               a[q[i] + 1] <= a[q[j] + 1]}}
    ELSE IF Len(a) = 0 THEN {Ok(<<>>)}
    ELSE {Raise("ValueError")}

\* nb.partsort(arr, n): the values in such an order
bn_partsort(a, n) ==
    {IF r.exc = "ok" THEN Ok(Take(a, r.out)) ELSE r : r \in bn_argpartsort(a, n)}

\* ------------------------------------------------------------- bn_topn
\* ResolveAscending with the default direction inverted
ResolveAscending_inverted(n, asc) == IF asc = "None" THEN n > 0 ELSE asc = "True"

\* if ascending is None: ascending = not N > 0
ResolveAscending(n, asc) == IF asc = "None" THEN ~(n > 0) ELSE asc = "True"

\* the value of N after the branch on N > 0
topn_split(a, n) ==
    IF n > 0
    THEN LET k == min(abs(n), Len(a)) IN Len(a) - abs(k)
    ELSE min(abs(n), Len(a))

\* sl = slice(N, None) for nlargest, slice(None, N) for nsmallest
apply_sl(out, n0, n) == IF n0 > 0 THEN SliceFrom(out, n) ELSE SliceTo(out, n)

\* topn_taken without the "if N == 0" pass-through
topn_taken_unguarded(a, n0, n) ==
    {IF r.exc = "ok" THEN Ok(apply_sl(r.out, n0, n)) ELSE r :
         r \in bn_partsort(a, n)}

\* bn_res before the final sort
topn_taken(a, n0, n) ==
    IF n = 0
    THEN {Ok(a)}
    ELSE {IF r.exc = "ok" THEN Ok(apply_sl(r.out, n0, n)) ELSE r :
              r \in bn_partsort(a, n)}

\* np.sort(bn_res), reversed when not ascending
topn_ordered(res, asc) ==
    LET s == np_sort(res) IN IF ~asc THEN Reversed(s) ELSE s

\* bn_topn(arr, N, ascending) for a 1-D arr: the set of its outcomes
bn_topn(a0, n0, asc0) ==
    LET asc == ResolveAscending(n0, asc0)
        a == DropNaN(a0)
        n == topn_split(a, n0)
    IN  {IF r.exc = "ok" THEN Ok(topn_ordered(r.out, asc)) ELSE r :
             r \in topn_taken(a, n0, n)}

\* ----------------------------------------------------------- bn_topargn
\* the value of N after the branch on N > 0 (no clamp to len(arr) here)
topargn_split(a, n) == IF n > 0 THEN Len(a) - abs(n) ELSE abs(n)

\* index[index_sort] for every order np.argsort may give to equal values
topargn_ordered(a, index, asc) ==
    {Take(index, IF ~asc THEN Reversed(s) ELSE s) : s \in np_argsort(Take(a, index))}

\* bn_topargn(arr, N, ascending) for a 1-D arr: the set of its outcomes
bn_topargn(a0, n0, asc0) ==
    LET asc == ResolveAscending(n0, asc0)
        has_na == \E i \in 1..Len(a0) : isnan(a0[i])
        old_index_map == where_notnan(a0)
        a == IF has_na THEN DropNaN(a0) ELSE a0
        n == topargn_split(a, n0)
        taken == {IF r.exc = "ok" THEN Ok(apply_sl(r.out, n0, n)) ELSE r :
                      r \in bn_argpartsort(a, n)}
    IN  UNION {IF r.exc = "ok"
               THEN {Ok(IF has_na THEN Take(old_index_map, index) ELSE index) :
                         index \in topargn_ordered(a, r.out, asc)}
               ELSE {r} :
                   r \in taken}

\* ------------------------------------------------- topn_df, topargn_df
\* a DataFrame: its row labels, its number of columns and its rows
Frame(index, ncols, values) == [index |-> index, ncols |-> ncols, values |-> values]

NoFrame == Frame(<<>>, 0, <<>>)

\* row[:len(r)] = r under numpy's broadcasting: r must have the length of
\* the target slice, or length 1
assign_prefix(row, r) ==
    LET L == Len(SliceTo(row, Len(r)))
    IN  IF Len(r) = L \/ Len(r) = 1
        THEN Ok([j \in 1..Len(row) |->
                    IF j <= L THEN (IF Len(r) = 1 THEN r[1] ELSE r[j]) ELSE row[j]])
        ELSE Raise("ValueError")

\* ret[i] = r: r must have the length of the row, or length 1
assign_row(width, r) ==
    IF Len(r) = width \/ Len(r) = 1
    THEN Ok([j \in 1..width |-> IF Len(r) = 1 THEN r[1] ELSE r[j]])
    ELSE Raise("ValueError")

\* for i in range(rows): row i is handled after the rows before it, and
\* the loop ends at the first row that raises.  outs[i] is the set of the
\* outcomes of the loop's body on row i.
for_rows(outs) ==
    LET upto[i \in 0..Len(outs)] ==
            IF i = 0 THEN {Ok(<<>>)}
            ELSE {IF p.exc # "ok" THEN p
                  ELSE IF o.exc # "ok" THEN Raise(o.exc)
                  ELSE Ok(Append(p.out, o.out)) :
                      p \in upto[i - 1], o \in outs[i]}
    IN  upto[Len(outs)]

\* topn_df with as many columns as asked for
topn_df_cols_unclamped(d, n) == abs(n)

\* cols = min(len(self.columns), abs(N))
topn_df_cols(d, n) == min(d.ncols, abs(n))

\* one pass of topn_df's loop on a row of ret filled with NaN
topn_df_row(row, n, asc, cols) ==
    UNION {IF r.exc = "ok" THEN {assign_prefix([j \in 1..cols |-> NaN], r.out)} ELSE {r} :
               r \in bn_topn(row, n, asc)}

\* DataFrame.topn(N, ascending): the set of its outcomes
topn_df(d, n, asc) ==
    LET cols == topn_df_cols(d, n)
    IN  {IF t.exc = "ok" THEN Ok(Frame(d.index, cols, t.out)) ELSE Raise(t.exc) :
             t \in for_rows([i \in 1..Len(d.values) |->
                                 topn_df_row(d.values[i], n, asc, cols)])}

\* one pass of topargn_df's loop
topargn_df_row(row, n, asc) ==
    UNION {IF r.exc = "ok" THEN {assign_row(abs(n), r.out)} ELSE {r} :
               r \in bn_topargn(row, n, asc)}

\* DataFrame.topargn(N, ascending): the set of its outcomes
topargn_df(d, n, asc) ==
    {IF t.exc = "ok" THEN Ok(Frame(d.index, abs(n), t.out)) ELSE Raise(t.exc) :
         t \in for_rows([i \in 1..Len(d.values) |->
                             topargn_df_row(d.values[i], n, asc)])}


\* ------------------------------------------------------------ list_frame
\* The elements are objects 1..MaxObj of one class (to_frame "assumes
\* homogenity").  A cell of a frame is an integer: 0 is None, 10 + x and
\* 20 + x are the attributes a and b of object x, 30 is the name of its
\* class and 40 + x is repr(x).  An entry of an attrs list is a string s,
\* Str(s), or a tuple (col, attr), Tup(col, attr).
NoneCell == 0

Str(s) == [tuple |-> FALSE, col |-> s, attr |-> s]

Tup(c, a) == [tuple |-> TRUE, col |-> c, attr |-> a]

\* the builtin repr, as _process_attrs puts it in place of 'repr'
ReprFunction == "<built-in function repr>"

\* _getter(obj, attr): attrgetter(attr)(obj), None when that fails
getter(obj, attr) ==
    IF attr = "a" THEN 10 + obj
    ELSE IF attr = "b" THEN 20 + obj
    ELSE IF attr = "__class__.__name__" THEN 30
    ELSE NoneCell

\* _column_picker(attr, objects): a callable attr is applied as it is
column_picker(attr, objects) ==
    [i \in 1..Len(objects) |->
        IF attr = ReprFunction THEN 40 + objects[i] ELSE getter(objects[i], attr)]

\* new_attrs[col] = attr on an OrderedDict kept as a sequence of items: a
\* key already there keeps its place and takes the new value
odict_set(d, col, attr) ==
    IF \E k \in 1..Len(d) : d[k].col = col
    THEN [k \in 1..Len(d) |-> IF d[k].col = col THEN [col |-> col, attr |-> attr] ELSE d[k]]
    ELSE Append(d, [col |-> col, attr |-> attr])

\* the body of _process_attrs's loop: the (col, attr) an entry stands for
process_attr(e) ==
    LET col == e.col
        attr == e.attr
        attr1 == IF attr = "class_name" THEN "__class__.__name__" ELSE attr
        attr2 == IF attr1 = "repr" THEN ReprFunction ELSE attr1
    IN  [col |-> col, attr |-> attr2]

\* _process_attrs(attrs)
process_attrs(attrs) ==
    LET new_attrs[k \in 0..Len(attrs)] ==
            IF k = 0 THEN <<>>
            ELSE odict_set(new_attrs[k - 1], process_attr(attrs[k]).col,
                           process_attr(attrs[k]).attr)
    IN  new_attrs[Len(attrs)]

\* a DataFrame of columns; _cache_df = None is NoCache
DataFrame(columns, data) == [none |-> FALSE, columns |-> columns, data |-> data]

NoCache == [none |-> TRUE, columns |-> <<>>, data |-> <<>>]

\* the attrs listframe_to_frame goes on with after "if repr_col:
\* attrs.append('repr')": the list itself is appended to
attrs_after_append(attrs, repr_col) ==
    IF repr_col THEN Append(attrs, Str("repr")) ELSE attrs

\* listframe_to_frame's frame for a non-empty lst and the attrs list as it
\* is after the append
listframe_to_frame(l, attrs) ==
    IF Len(l) = 0
    THEN DataFrame(<<>>, <<>>)
    ELSE LET items == process_attrs(attrs)
         IN  DataFrame([k \in 1..Len(items) |-> items[k].col],
                       [k \in 1..Len(items) |-> column_picker(items[k].attr, l)])

\* what a call gives back: None, an object, a DataFrame, or an exception
RNone == [kind |-> "None", val |-> 0]

RObject(x) == [kind |-> "object", val |-> x]

RFrame == [kind |-> "DataFrame", val |-> 0]

RRaised(e) == [kind |-> e, val |-> 0]

\* a method of list on the elements l: the elements after it and what it
\* returns
Done(l, r) == [lst |-> l, ret |-> r]

RemoveAt(l, i) == [k \in 1..(Len(l) - 1) |-> IF k <= i THEN l[k] ELSE l[k + 1]]

InsertAt(l, i, x) ==
    [k \in 1..(Len(l) + 1) |-> IF k <= i THEN l[k] ELSE IF k = i + 1 THEN x ELSE l[k - 1]]

list_append(l, x) == Done(Append(l, x), RNone)

list_setitem(l, i, x) ==
    IF i < Len(l) THEN Done([l EXCEPT ![i + 1] = x], RNone)
    ELSE Done(l, RRaised("IndexError"))

list_delitem(l, i) ==
    IF i < Len(l) THEN Done(RemoveAt(l, i), RNone) ELSE Done(l, RRaised("IndexError"))

list_sort(l) == Done(np_sort(l), RNone)

list_extend(l, xs) == Done(l \o xs, RNone)

list_insert(l, i, x) == Done(InsertAt(l, min(i, Len(l)), x), RNone)

list_pop(l) ==
    IF Len(l) = 0 THEN Done(l, RRaised("IndexError"))
    ELSE Done(SubSeq(l, 1, Len(l) - 1), RObject(l[Len(l)]))

list_remove(l, x) ==
    IF \E k \in 1..Len(l) : l[k] = x
    THEN Done(RemoveAt(l, (CHOOSE k \in 1..Len(l) :
                               l[k] = x /\ \A j \in 1..(k - 1) : l[j] # x) - 1), RNone)
    ELSE Done(l, RRaised("ValueError"))

list_reverse(l) == Done(Reversed(l), RNone)

list_imul(l, k) ==
    LET rep[j \in 0..k] == IF j = 0 THEN <<>> ELSE rep[j - 1] \o l IN Done(rep[k], RNone)

\* _binder(method)'s _method: the super method's effect on the elements;
\* its return value is dropped, an exception passes through
binder_ret(res) == IF res.ret.kind \in {"None", "object"} THEN RNone ELSE res.ret

\* a call of a method _binder wrapped, and the same call on the plain list
Wrapped(name, res, plain_res) ==
    /\ cache_df' = NoCache
    /\ lst' = res.lst
    /\ ret' = binder_ret(res)
    /\ plain' = plain_res.lst
    /\ plain_ret' = plain_res.ret
    /\ last_op' = [name |-> name, attrs |-> "-", repr_col |-> "-"]
    /\ UNCHANGED <<self_attrs, self_repr_col, user_attrs, frame_cols>>
    /\ UNCHANGED <<N, ascending, sel_vars, df_vars>>

\* a method ListFrame inherits from list as it is
Inherited(name, res, plain_res) ==
    /\ lst' = res.lst
    /\ ret' = res.ret
    /\ plain' = plain_res.lst
    /\ plain_ret' = plain_res.ret
    /\ last_op' = [name |-> name, attrs |-> "-", repr_col |-> "-"]
    /\ UNCHANGED <<cache_df, self_attrs, self_repr_col, user_attrs, frame_cols>>
    /\ UNCHANGED <<N, ascending, sel_vars, df_vars>>

Objects == 1..MaxObj

ObjLists(k) == UNION {[1..m -> Objects] : m \in 0..k}

\* room left in the lists of the model
Room == MaxListLen - Len(lst)

NoAttrs == [none |-> TRUE, items |-> <<>>]

AttrList(items) == [none |-> FALSE, items |-> items]

\* no ListFrame: the state of the list variables in the selection systems
NoListFrame ==
    /\ lst = <<>>
    /\ plain = <<>>
    /\ cache_df = NoCache
    /\ self_attrs = NoAttrs
    /\ self_repr_col = FALSE
    /\ user_attrs = <<>>
    /\ frame_cols = <<>>
    /\ last_op = [name |-> "none", attrs |-> "-", repr_col |-> "-"]
    /\ ret = RNone
    /\ plain_ret = RNone

\* ------------------------------------------ the 1-D selection, as a system
Values == 1..MaxVal

Arrays == UNION {[1..m -> Values \cup {NaN}] : m \in 0..MaxLen}

Counts == (-MaxN)..MaxN

AscendingArgs == {"None", "True", "False"}

Init ==
    /\ arr \in Arrays
    /\ N \in Counts
    /\ ascending \in AscendingArgs
    /\ vals = <<>>
    /\ topn_st = "not called"
    /\ idx = <<>>
    /\ topargn_st = "not called"
    /\ df = NoFrame
    /\ df_ret = NoFrame
    /\ df_st = "not called"
    /\ df_op = "none"
    /\ NoListFrame

\* res = bn_topn(arr, N, ascending)
CallTopn ==
    /\ topn_st = "not called"
    /\ \E r \in bn_topn(arr, N, ascending) :
           /\ vals' = r.out
           /\ topn_st' = r.exc
    /\ UNCHANGED <<arr, N, ascending, idx, topargn_st, df_vars, lf_vars>>

\* res = bn_topargn(arr, N, ascending)
CallTopargn ==
    /\ topargn_st = "not called"
    /\ \E r \in bn_topargn(arr, N, ascending) :
           /\ idx' = r.out
           /\ topargn_st' = r.exc
    /\ UNCHANGED <<arr, N, ascending, vals, topn_st, df_vars, lf_vars>>

Next == CallTopn \/ CallTopargn

Spec == Init /\ [][Next]_vars

\* ------------------------------------------- claims on the 1-D selection
\* the vocabulary of the claims, independent of the definitions above
FiniteCount(s) == Cardinality({i \in DOMAIN s : s[i] # NaN})

CountOf(s, v) == Cardinality({i \in DOMAIN s : s[i] = v})

HasNaN(s) == \E i \in DOMAIN s : s[i] = NaN

Ascending(s) == \A i \in 1..(Len(s) - 1) : s[i] <= s[i + 1]

Descending(s) == \A i \in 1..(Len(s) - 1) : s[i] >= s[i + 1]

\* the resolved direction for a request N # 0: None is descending for N > 0
WantAscending == IF ascending = "None" THEN N < 0 ELSE ascending = "True"

\* s is a sub-multiset of the finite values of arr
FromFinite(s) == \A v \in Values \cup {NaN} :
                     CountOf(s, v) <= (IF v = NaN THEN 0 ELSE CountOf(arr, v))

\* nothing left out of s is larger (smaller) than something in s
NothingLargerLeftOut(s) ==
    \A v \in Values : CountOf(arr, v) > CountOf(s, v) => \A i \in DOMAIN s : s[i] >= v

NothingSmallerLeftOut(s) ==
    \A v \in Values : CountOf(arr, v) > CountOf(s, v) => \A i \in DOMAIN s : s[i] <= v

\* a with the entries outside the set keep of its indices deleted
KeepAt(a, keep) ==
    LET F[i \in 0..Len(a)] ==
            IF i = 0 THEN <<>>
            ELSE IF i \in keep THEN Append(F[i - 1], a[i]) ELSE F[i - 1]
    IN  F[Len(a)]

\* the arrays from which a is obtained by inserting NaN entries
WithoutSomeNaNs(a) ==
    {KeepAt(a, keep) : keep \in {S \in SUBSET (1..Len(a)) :
                                    \A i \in (1..Len(a)) \ S : a[i] = NaN}}

\* C1 (as claimed): for every s, N and ascending, bn_topargn completes and
\* s indexed by its result is element-wise bn_topn's result.
C1_RoundTrip ==
    (topn_st # "not called" /\ topargn_st # "not called") =>
        /\ topargn_st = "ok"
        /\ topn_st = "ok"
        /\ Take(arr, idx) = vals

\* C2: for N # 0, bn_topn returns exactly K = min(|N|, M) values, as a
\* multiset the K largest finite values when N > 0 and the K smallest when
\* N < 0, ascending or descending per the resolved direction.
C2_TopnSelects ==
    (topn_st # "not called" /\ N # 0) =>
        /\ topn_st = "ok"
        /\ Len(vals) = min(abs(N), FiniteCount(arr))
        /\ FromFinite(vals)
        /\ IF N > 0 THEN NothingLargerLeftOut(vals) ELSE NothingSmallerLeftOut(vals)
        /\ IF WantAscending THEN Ascending(vals) ELSE Descending(vals)

\* a request for more largest values than there are finite ones, on an
\* array with a NaN, answered in the default (descending) order
C2_Witness ==
    /\ topn_st = "ok"
    /\ N > FiniteCount(arr)
    /\ HasNaN(arr)
    /\ ascending = "None"
    /\ Len(vals) = 2
    /\ vals[1] > vals[2]

\* C3 (as claimed): bn_topargn returns exactly min(|N|, M) pairwise distinct
\* 0-based positions of the original sequence, none holding a NaN, ordered
\* by their values per the resolved direction; |N| > M is clamped to M.
C3_TopargnPositions ==
    (topargn_st # "not called") =>
        /\ topargn_st = "ok"
        /\ Len(idx) = min(abs(N), FiniteCount(arr))
        /\ \A i \in DOMAIN idx : idx[i] \in 0..(Len(arr) - 1) /\ arr[idx[i] + 1] # NaN
        /\ \A i, j \in DOMAIN idx : idx[i] = idx[j] => i = j
        /\ IF (IF ascending = "None" THEN ~(N > 0) ELSE ascending = "True")
           THEN Ascending(Take(arr, idx)) ELSE Descending(Take(arr, idx))

\* C4: bn_topn of a sequence equals bn_topn of every sequence it is obtained
\* from by inserting NaN entries, and returns no NaN.
C4_NaNExclusion ==
    (topn_st # "not called") =>
        /\ ~HasNaN(vals)
        /\ \A s \in WithoutSomeNaNs(arr) :
               bn_topn(s, N, ascending) = {[exc |-> topn_st, out |-> vals]}

\* two finite values with a NaN between them: the two
\* smallest are asked for and returned
C4_Witness ==
    /\ topn_st = "ok"
    /\ Len(arr) = MaxLen
    /\ FiniteCount(arr) = 2
    /\ arr[2] = NaN
    /\ N = -2
    /\ Len(vals) = 2
    /\ vals[1] < vals[2]

\* C5: bn_topn(s, 0, None) returns all the finite values of s, ascending,
\* and does not raise.
C5_ZeroReturnsAll ==
    (topn_st # "not called" /\ N = 0 /\ ascending = "None") =>
        /\ topn_st = "ok"
        /\ \A v \in Values \cup {NaN} :
               CountOf(vals, v) = (IF v = NaN THEN 0 ELSE CountOf(arr, v))
        /\ Ascending(vals)

\* N = 0 on an unsorted array with a NaN: both finite values come back
C5_Witness ==
    /\ topn_st = "ok"
    /\ N = 0
    /\ ascending = "None"
    /\ HasNaN(arr)
    /\ Len(arr) = 3
    /\ arr[1] > arr[3]
    /\ arr[3] # NaN
    /\ Len(vals) = 2

\* ---------------------------------------- the row-wise selection, as a system
Cells == Values \cup {NaN}

\* the shapes (rows, columns) of the tables of at most MaxCells cells with
\* rows no longer than the arrays above
Shapes == {sh \in (0..MaxCells) \X (0..MaxLen) : sh[1] * sh[2] <= MaxCells}

\* row labels that differ from the row positions
Labels(rows) == [i \in 1..rows |-> 10 * (rows + 1 - i)]

Frames ==
    UNION {{Frame(Labels(sh[1]), sh[2], v) : v \in [1..sh[1] -> [1..sh[2] -> Cells]]} :
               sh \in Shapes}

InitDF ==
    /\ df \in Frames
    /\ N \in (-(df.ncols + 1))..(df.ncols + 1)
    /\ ascending \in AscendingArgs
    /\ df_ret = NoFrame
    /\ df_st = "not called"
    /\ df_op = "none"
    /\ arr = <<>>
    /\ vals = <<>>
    /\ topn_st = "not called"
    /\ idx = <<>>
    /\ topargn_st = "not called"
    /\ NoListFrame

\* ret = df.topn(N, ascending)
CallTopnDF ==
    /\ df_op = "none"
    /\ \E r \in topn_df(df, N, ascending) :
           /\ df_ret' = (IF r.exc = "ok" THEN r.out ELSE NoFrame)
           /\ df_st' = r.exc
    /\ df_op' = "topn"
    /\ UNCHANGED <<N, ascending, sel_vars, df, lf_vars>>

\* ret = df.topargn(N, ascending)
CallTopargnDF ==
    /\ df_op = "none"
    /\ \E r \in topargn_df(df, N, ascending) :
           /\ df_ret' = (IF r.exc = "ok" THEN r.out ELSE NoFrame)
           /\ df_st' = r.exc
    /\ df_op' = "topargn"
    /\ UNCHANGED <<N, ascending, sel_vars, df, lf_vars>>

NextDF == CallTopnDF \/ CallTopargnDF

SpecDF == InitDF /\ [][NextDF]_vars

\* ---------------------------------------- claims on the row-wise selection
\* r followed by NaN up to the given width
Padded(r, width) == [j \in 1..width |-> IF j <= Len(r) THEN r[j] ELSE NaN]

\* what C6 says of the outcome of DataFrame.topn
TopnDFAsClaimed ==
    /\ df_st = "ok"
    /\ df_ret.index = df.index
    /\ Len(df_ret.values) = Len(df.values)
    /\ df_ret.ncols = min(df.ncols, abs(N))
    /\ \A i \in 1..Len(df.values) :
           /\ Len(df_ret.values[i]) = df_ret.ncols
           /\ \E r \in bn_topn(df.values[i], N, ascending) :
                  r.exc = "ok" /\ df_ret.values[i] = Padded(r.out, Len(df_ret.values[i]))
                               /\ Len(r.out) <= Len(df_ret.values[i])

\* C6 (as claimed): for every table and every signed N, DataFrame.topn
\* returns one row per input row under the same labels, min(columns, |N|)
\* columns, row i holding bn_topn(row i) left-aligned and NaN after it.
C6_TopnDF == df_op = "topn" => TopnDFAsClaimed

\* C6 (amended): the same for every N # 0.
C6_TopnDF_NonZero == (df_op = "topn" /\ N # 0) => TopnDFAsClaimed

\* two rows, the second with a NaN: its row is padded
C6_Witness ==
    /\ df_op = "topn"
    /\ df_st = "ok"
    /\ N = 2
    /\ Len(df.values) = 2
    /\ df.ncols = 2
    /\ df.values[1][1] < df.values[1][2]
    /\ df.values[2][1] = NaN
    /\ df_ret.values[1] = <<df.values[1][2], df.values[1][1]>>
    /\ df_ret.values[2] = <<df.values[2][2], NaN>>
    /\ df.values[2][2] # NaN

\* C7 (as claimed): for N # 0 and a table whose rows all have at least |N|
\* finite values, DataFrame.topargn completes with exactly |N| columns, the
\* input's row labels, and row i equal to bn_topargn(row i).
C7_TopargnDF ==
    (/\ df_op = "topargn"
     /\ N # 0
     /\ \A i \in 1..Len(df.values) : FiniteCount(df.values[i]) >= abs(N)) =>
        /\ df_st = "ok"
        /\ df_ret.ncols = abs(N)
        /\ df_ret.index = df.index
        /\ Len(df_ret.values) = Len(df.values)
        /\ \A i \in 1..Len(df.values) :
               Ok(df_ret.values[i]) \in bn_topargn(df.values[i], N, ascending)

\* ------------------------------------------------ the ListFrame, as a system
\* ListFrame(data, attrs, repr_col)
InitLF ==
    /\ lst \in ObjLists(MaxListLen)
    /\ plain = lst
    /\ cache_df = NoCache
    /\ self_attrs \in {NoAttrs, AttrList(<<Str("a")>>)}
    /\ self_repr_col \in BOOLEAN
    /\ user_attrs = <<Tup("x", "b"), Str("class_name")>>
    /\ frame_cols = <<Str("a"), Str("b")>>
    /\ last_op = [name |-> "__init__", attrs |-> "-", repr_col |-> "-"]
    /\ ret = RNone
    /\ plain_ret = RNone
    /\ arr = <<>>
    /\ N = 0
    /\ ascending = "None"
    /\ vals = <<>>
    /\ topn_st = "not called"
    /\ idx = <<>>
    /\ topargn_st = "not called"
    /\ df = NoFrame
    /\ df_ret = NoFrame
    /\ df_st = "not called"
    /\ df_op = "none"

LFAppend ==
    \E x \in Objects :
        /\ Room >= 1
        /\ Wrapped("append", list_append(lst, x), list_append(plain, x))

LFSetItem ==
    \E i \in 0..Len(lst), x \in Objects :
        Wrapped("__setitem__", list_setitem(lst, i, x), list_setitem(plain, i, x))

LFDelItem ==
    \E i \in 0..Len(lst) :
        Wrapped("__delitem__", list_delitem(lst, i), list_delitem(plain, i))

LFSort == Wrapped("sort", list_sort(lst), list_sort(plain))

LFExtend ==
    \E xs \in ObjLists(Room) :
        Wrapped("extend", list_extend(lst, xs), list_extend(plain, xs))

LFInsert ==
    \E i \in 0..Len(lst), x \in Objects :
        /\ Room >= 1
        /\ Wrapped("insert", list_insert(lst, i, x), list_insert(plain, i, x))

LFPop == Wrapped("pop", list_pop(lst), list_pop(plain))

LFRemove ==
    \E x \in Objects :
        Wrapped("remove", list_remove(lst, x), list_remove(plain, x))

LFReverse == Wrapped("reverse", list_reverse(lst), list_reverse(plain))

\* lf += xs: list.__iadd__, which mutation_methods does not name
LFIAdd ==
    \E xs \in ObjLists(Room) :
        Inherited("__iadd__", list_extend(lst, xs), list_extend(plain, xs))

\* lf *= k: list.__imul__, which mutation_methods does not name
LFIMul ==
    \E k \in 0..MaxListLen :
        /\ k * Len(lst) <= MaxListLen
        /\ Inherited("__imul__", list_imul(lst, k), list_imul(plain, k))

\* lf.to_frame(attrs, repr_col): attrs is None or the caller's list, and
\* repr_col is None, True or False
LFToFrame ==
    \E attrs_arg \in {"None", "list"}, repr_arg \in {"None", "True", "False"} :
        LET repr_col == IF repr_arg = "None" THEN self_repr_col ELSE repr_arg = "True"
            \* the list object listframe_to_frame works on
            which == IF attrs_arg = "list" THEN "caller"
                     ELSE IF ~self_attrs.none THEN "self"
                     ELSE "_frame_cols"
            attrs == IF which = "caller" THEN user_attrs
                     ELSE IF which = "self" THEN self_attrs.items
                     ELSE frame_cols
            touched == Len(lst) # 0
            after == IF touched THEN attrs_after_append(attrs, repr_col) ELSE attrs
        IN  /\ Len(after) <= MaxAttrs
            /\ cache_df' = listframe_to_frame(lst, after)
            /\ user_attrs' = (IF which = "caller" THEN after ELSE user_attrs)
            /\ self_attrs' = (IF which = "self" THEN AttrList(after) ELSE self_attrs)
            /\ frame_cols' = (IF which = "_frame_cols" THEN after ELSE frame_cols)
            /\ ret' = RFrame
            /\ last_op' = [name |-> "to_frame", attrs |-> attrs_arg, repr_col |-> repr_arg]
            /\ UNCHANGED <<lst, self_repr_col, plain, plain_ret>>
            /\ UNCHANGED <<N, ascending, sel_vars, df_vars>>

NextLF ==
    \/ LFAppend
    \/ LFSetItem
    \/ LFDelItem
    \/ LFSort
    \/ LFExtend
    \/ LFInsert
    \/ LFPop
    \/ LFRemove
    \/ LFReverse
    \/ LFIAdd
    \/ LFIMul
    \/ LFToFrame

SpecLF == InitLF /\ [][NextLF]_vars

\* ------------------------------------------------- claims on the ListFrame
MutationMethods ==
    {"append", "__setitem__", "__delitem__", "sort", "extend", "insert", "pop",
     "remove", "reverse"}

\* the cells an element can show in a column
CellsOf(x) == {NoneCell, 10 + x, 20 + x, 30, 40 + x}

\* frame f has one row per element of l, in order, each cell of a row being
\* an attribute of that row's element (the empty frame for the empty list)
IsProjectionOf(f, l) ==
    /\ ~f.none
    /\ Len(l) = 0 => f.columns = <<>>
    /\ \A j \in DOMAIN f.data :
           /\ Len(f.data[j]) = Len(l)
           /\ \A i \in 1..Len(l) : f.data[j][i] \in CellsOf(l[i])

\* C8 (as claimed): in every reachable state _cache_df is None or is the
\* projection of the list's current contents.
C8_CacheInvalidation == cache_df.none \/ IsProjectionOf(cache_df, lst)

\* C9 (as claimed): after any calls of the wrapped mutation methods the
\* elements are those of a plain list driven by the same calls, and each call
\* returned what the plain list's method returned.
C9_LikeList ==
    /\ lst = plain
    /\ last_op.name \in MutationMethods => ret = plain_ret

\* C10 (as claimed): a to_frame call leaves the elements, the ListFrame's
\* attrs and repr_col and the caller's attrs list as they were, and a call
\* that repeats the one before it returns the same table.
C10_ToFrameReadOnly ==
    [][last_op'.name = "to_frame" =>
          /\ lst' = lst
          /\ self_attrs' = self_attrs
          /\ self_repr_col' = self_repr_col
          /\ user_attrs' = user_attrs
          /\ last_op' = last_op => cache_df' = cache_df]_vars

====
